---- MODULE Spec2Model ----
(***************************************************************************)
(* TranslucentTB: the taskbar registry (run.taskbars), its rebuild         *)
(* (RefreshHandles), the worker's poll tick (SetTaskbarBlur with           *)
(* EnumWindowsProcess), the dispatcher (SetWindowBlur) and the lifetime of *)
(* the two threads in wWinMain, translated from src/TranslucentTB/main.cpp.*)
(*                                                                         *)
(* Handles.  NullWindow is 0, application windows are 1..NumWindows in     *)
(* EnumWindows order (the handle number is the window's place in the       *)
(* enumeration), the taskbar surface of monitor m is Tray(m) = -m.         *)
(* Monitors are 1..NumMonitors; the primary taskbar (Shell_TrayWnd) sits   *)
(* on PrimaryMonitor, secondary taskbars on the others.                    *)
(***************************************************************************)
EXTENDS Integers, Sequences, FiniteSets, TLC

VARIABLES
    cfg,              \* Config: feature toggles and the appearance catalog
    swca,             \* user32::SetWindowCompositionAttribute is available
    primary,          \* a Shell_TrayWnd window exists
    secondaries,      \* monitors that have a Shell_SecondaryTrayWnd
    windows,          \* top-level windows: handle -> attributes
    fg,               \* Window::ForegroundWindow()
    taskbars,         \* run.taskbars
    main_taskbar,     \* run.main_taskbar
    should_show_peek, \* run.should_show_peek
    is_running,       \* run.is_running
    exit_reason,      \* run.exit_reason
    peek_active,      \* run.peek_active
    start_opened,     \* run.start_opened
    hwnd,             \* the global HWND hwnd
    counter,          \* static uint8_t counter of SetTaskbarBlur
    is_normal,        \* static is_normal map of SetWindowBlur
    sent,             \* per surface: what last set its composition state (the last
                      \* command issued to it, or another program)
    mutex,            \* run.taskbars_mutex: its holder
    mpc,              \* position of the GUI thread in wWinMain
    rhpc,             \* position of the GUI thread inside RefreshHandles
    wpc               \* position of the worker thread (swca_thread)

vars == <<cfg, swca, primary, secondaries, windows, fg, taskbars, main_taskbar,
          should_show_peek, is_running, exit_reason, peek_active, start_opened,
          hwnd, counter, is_normal, sent, mutex, mpc, rhpc, wpc>>

envVars == <<primary, secondaries, windows, fg>>
runVars == <<taskbars, main_taskbar, should_show_peek, hwnd, counter>>
blurVars == <<is_normal, sent>>
threadVars == <<mutex, mpc, rhpc, wpc, is_running, exit_reason>>

----------------------------------------------------------------------------
(* Bounds *)

NumMonitors == 2
NumWindows == 2

(* Program constants *)

CounterThreshold == 10

Monitors == 1..NumMonitors
PrimaryMonitor == 1
SecondaryMonitors == Monitors \ {PrimaryMonitor}
NullMonitor == 0
NullWindow == 0
WindowIds == 1..NumWindows
Tray(m) == 0 - m

REGULAR == "REGULAR_APPEARANCE"
MAXIMISED == "MAXIMISED_APPEARANCE"
START == "START_APPEARANCE"
CORTANA == "CORTANA_APPEARANCE"
TIMELINE == "TIMELINE_APPEARANCE"
Presets == {REGULAR, MAXIMISED, START, CORTANA, TIMELINE}

ACCENT_NORMAL == "ACCENT_NORMAL"
ACCENT_ENABLE_BLURBEHIND == "ACCENT_ENABLE_BLURBEHIND"
ACCENT_ENABLE_FLUENT == "ACCENT_ENABLE_FLUENT"

CORE_WINDOW == "Windows.UI.Core.CoreWindow"

----------------------------------------------------------------------------
(* Small helpers *)

EmptyMap == [k \in {} |-> NullWindow]

\* std::unordered_map::operator[] used as an assignment
Put(f, k, v) == [x \in (DOMAIN f) \cup {k} |-> IF x = k THEN v ELSE f[x]]

Surfaces == {NullWindow} \cup {Tray(m) : m \in Monitors}

----------------------------------------------------------------------------
(* The windows the shell reports *)

\* what every query on NullWindow or on a destroyed window answers
Gone == [valid |-> FALSE, mon |-> NullMonitor, visible |-> FALSE, maximized |-> FALSE,
         cloaked |-> FALSE, blacklisted |-> FALSE, on_desktop |-> FALSE,
         file |-> "", class |-> ""]

Attr(w) == IF w = NullWindow THEN Gone ELSE windows[w]

ToLower(s) ==
    CASE s = "SearchUI.exe" -> "searchui.exe"
      [] s = "SearchApp.exe" -> "searchapp.exe"
      [] s = "SEARCHAPP.EXE" -> "searchapp.exe"
      [] s = "Explorer.exe" -> "explorer.exe"
      [] s = "EXPLORER.EXE" -> "explorer.exe"
      [] OTHER -> s

IgnoreCaseStringEquals(a, b) == ToLower(a) = ToLower(b)

\* the (process file name, window class) pairs of the modelled windows
Ordinary == [file |-> "notepad.exe", class |-> "Notepad"]
SearchUI == [file |-> "SearchUI.exe", class |-> CORE_WINDOW]
SearchApp == [file |-> "SEARCHAPP.EXE", class |-> CORE_WINDOW]
TaskView == [file |-> "EXPLORER.EXE", class |-> CORE_WINDOW]
OldTaskView == [file |-> "Explorer.exe", class |-> "MultitaskingViewFrame"]

Good(m, k) == [valid |-> TRUE, mon |-> m, visible |-> TRUE, maximized |-> TRUE,
               cloaked |-> FALSE, blacklisted |-> FALSE, on_desktop |-> TRUE,
               file |-> k.file, class |-> k.class]

\* a maximized window on the current desktop, and the same window failing
\* exactly one of the five tests of EnumWindowsProcess
Shapes(m, k) ==
    { Good(m, k),
      [Good(m, k) EXCEPT !.visible = FALSE],
      [Good(m, k) EXCEPT !.maximized = FALSE],
      [Good(m, k) EXCEPT !.cloaked = TRUE],
      [Good(m, k) EXCEPT !.blacklisted = TRUE],
      [Good(m, k) EXCEPT !.on_desktop = FALSE] }

AllKinds == {Ordinary, SearchUI, SearchApp, TaskView, OldTaskView}

AllShapes == UNION { Shapes(m, k) : m \in Monitors, k \in AllKinds }

\* the windows of the lifecycle specification: an ordinary application window,
\* maximized or restored, on any monitor
PlainShapes ==
    UNION { {Good(m, Ordinary), [Good(m, Ordinary) EXCEPT !.maximized = FALSE]} : m \in Monitors }

----------------------------------------------------------------------------
(* Configuration: the Config namespace, read-only after Config::Parse *)

Blurred == [p \in Presets |-> ACCENT_ENABLE_BLURBEHIND]

BaseConfig ==
    [ MAXIMISED_ENABLED |-> TRUE,
      MAXIMISED_REGULAR_ON_PEEK |-> TRUE,
      PEEK |-> "Dynamic",
      PEEK_ONLY_MAIN |-> FALSE,
      CORTANA_ENABLED |-> TRUE,
      START_ENABLED |-> TRUE,
      TIMELINE_ENABLED |-> TRUE,
      timeline_av |-> TRUE,
      ACCENT |-> [Blurred EXCEPT ![REGULAR] = ACCENT_ENABLE_FLUENT, ![START] = ACCENT_NORMAL],
      COLOR |-> [p \in Presets |-> 0] ]

\* every combination of the feature toggles
AllConfigs ==
    { [BaseConfig EXCEPT !.MAXIMISED_ENABLED = a, !.MAXIMISED_REGULAR_ON_PEEK = b,
                         !.PEEK = c, !.PEEK_ONLY_MAIN = d, !.CORTANA_ENABLED = e,
                         !.START_ENABLED = f, !.TIMELINE_ENABLED = g, !.timeline_av = h] :
        a \in BOOLEAN, b \in BOOLEAN, c \in {"Disabled", "Enabled", "Dynamic"},
        d \in BOOLEAN, e \in BOOLEAN, f \in BOOLEAN, g \in BOOLEAN, h \in BOOLEAN }

----------------------------------------------------------------------------
(* SetWindowBlur *)

NoCommand == [msg |-> "none", accent |-> "", color |-> 0]
ThemeChanged == [msg |-> "WM_THEMECHANGED", accent |-> ACCENT_NORMAL, color |-> 0]

\* the composition state of a surface was set by something else than SetWindowBlur
External == [msg |-> "external", accent |-> "", color |-> 0]

Byte(c, i) == (c \div (256 ^ i)) % 256

\* (color & 0xFF00FF00) + ((color & 0x00FF0000) >> 16) + ((color & 0x000000FF) << 16)
PolicyColor(color) ==
    Byte(color, 3) * (256 ^ 3) + Byte(color, 1) * 256 + Byte(color, 2) + Byte(color, 0) * (256 ^ 2)

\* FluentClamp that leaves every color as it is
FluentClampNone(accent, nColor) == nColor

\* policy.nColor after the Fluent test
FluentClamp(accent, nColor) ==
    IF accent = ACCENT_ENABLE_FLUENT /\ nColor \div (256 ^ 3) = 0
    THEN (256 ^ 3) + (nColor % (256 ^ 3))
    ELSE nColor

\* SetWindowBlur without the test of line 67
SetWindowBlurUnchecked(b, window, appearance, color) ==
    IF appearance = ACCENT_NORMAL
    THEN IF window \notin DOMAIN b.is_normal \/ ~b.is_normal[window]
         THEN [is_normal |-> Put(b.is_normal, window, TRUE),
               sent |-> [b.sent EXCEPT ![window] = ThemeChanged]]
         ELSE b
    ELSE [is_normal |-> Put(b.is_normal, window, FALSE),
          sent |-> [b.sent EXCEPT ![window] =
                      [msg |-> "SetWindowCompositionAttribute", accent |-> appearance,
                       color |-> FluentClamp(appearance, PolicyColor(color))]]]

\* SetWindowBlur without the memo of the Normal mode
SetWindowBlurNoMemo(b, window, appearance, color) ==
    IF swca
    THEN IF appearance = ACCENT_NORMAL
         THEN [is_normal |-> Put(b.is_normal, window, TRUE),
               sent |-> [b.sent EXCEPT ![window] = ThemeChanged]]
         ELSE [is_normal |-> Put(b.is_normal, window, FALSE),
               sent |-> [b.sent EXCEPT ![window] =
                           [msg |-> "SetWindowCompositionAttribute", accent |-> appearance,
                            color |-> FluentClamp(appearance, PolicyColor(color))]]]
    ELSE b

\* b = [is_normal, sent] before the call; the value is b after it
SetWindowBlur(b, window, appearance, color) ==
    IF swca
    THEN IF appearance = ACCENT_NORMAL
         THEN IF window \notin DOMAIN b.is_normal \/ ~b.is_normal[window]
              THEN [is_normal |-> Put(b.is_normal, window, TRUE),
                    sent |-> [b.sent EXCEPT ![window] = ThemeChanged]]
              ELSE b
         ELSE [is_normal |-> Put(b.is_normal, window, FALSE),
               sent |-> [b.sent EXCEPT ![window] =
                           [msg |-> "SetWindowCompositionAttribute", accent |-> appearance,
                            color |-> FluentClamp(appearance, PolicyColor(color))]]]
    ELSE b

\* one SetWindowBlur call per element of keys (the range-for loops over run.taskbars);
\* mode(k) and color(k) are the arguments of the call for key k
RECURSIVE BlurAll(_, _, _, _)
BlurAll(b, keys, mode, color) ==
    IF keys = {} THEN b
    ELSE LET k == CHOOSE x \in keys : TRUE
         IN BlurAll(SetWindowBlur(b, taskbars[k].first, mode[k], color[k]),
                    keys \ {k}, mode, color)

----------------------------------------------------------------------------
(* RefreshHandles *)

\* Window::Find(L"Shell_TrayWnd")
FindMainTaskbar == IF primary THEN Tray(PrimaryMonitor) ELSE NullWindow

\* what Window::monitor() may answer for NullWindow
NullWindowMonitors == {NullMonitor, PrimaryMonitor}

RECURSIVE AddSecondary(_, _)
AddSecondary(tb, ms) ==
    IF ms = {} THEN tb
    ELSE LET m == CHOOSE x \in ms : TRUE
         IN AddSecondary(Put(tb, m, [first |-> Tray(m), second |-> REGULAR]), ms \ {m})

\* lines 220-226: the map after the main taskbar and every secondary one are
\* entered; k is the monitor reported for the main taskbar
Populate(tb, k) ==
    AddSecondary(Put(tb, k, [first |-> FindMainTaskbar, second |-> REGULAR]), secondaries)

\* Lock that does not wait
LockNoWait(who) == mutex' = who

\* std::lock_guard guard(run.taskbars_mutex): thread who waits until the mutex
\* is free and takes it
Lock(who) ==
    /\ mutex = "free"
    /\ mutex' = who

\* the guard of line 215; RefreshHandles is called at startup (line 511) and by
\* the message loop for WM_DISPLAYCHANGE, WM_TASKBARCREATED and creation_hook
RefreshLock ==
    /\ mpc \in {"startup", "loop"}
    /\ rhpc = "idle"
    /\ Lock("main")
    /\ rhpc' = "locked"
    /\ UNCHANGED <<cfg, swca, envVars, runVars, blurVars, mpc, wpc, is_running,
                   exit_reason, peek_active, start_opened>>

\* run.taskbars.clear()
RefreshClear ==
    /\ rhpc = "locked"
    /\ taskbars' = EmptyMap
    /\ rhpc' = "cleared"
    /\ UNCHANGED <<cfg, swca, envVars, main_taskbar, should_show_peek, hwnd, counter,
                   blurVars, mutex, mpc, wpc, is_running, exit_reason, peek_active,
                   start_opened>>

\* the two insertions, then the guard's release on return
RefreshFill ==
    /\ rhpc = "cleared"
    /\ main_taskbar' = FindMainTaskbar
    /\ \E k \in (IF primary THEN {PrimaryMonitor} ELSE NullWindowMonitors) :
          taskbars' = Populate(taskbars, k)
    /\ mutex' = "free"
    /\ rhpc' = "idle"
    /\ mpc' = IF mpc = "startup" THEN "spawn" ELSE mpc
    /\ UNCHANGED <<cfg, swca, envVars, should_show_peek, hwnd, counter, blurVars, wpc,
                   is_running, exit_reason, peek_active, start_opened>>

----------------------------------------------------------------------------
(* EnumWindowsProcess and SetTaskbarBlur *)

\* the test of lines 285-286, repeated at lines 337-338, on window w against
\* the map tb
IsMaximisedOnTaskbar(tb, w) ==
    /\ Attr(w).visible
    /\ Attr(w).maximized
    /\ ~Attr(w).cloaked
    /\ ~Attr(w).blacklisted
    /\ Attr(w).on_desktop
    /\ Attr(w).mon \in DOMAIN tb

\* EnumWindowsProcess that never reads Config::PEEK_ONLY_MAIN
EnumWindowsProcessAnyMonitor(s, w) ==
    LET s1 == [s EXCEPT !.hwnd = w]
        m == Attr(w).mon
    IN IF IsMaximisedOnTaskbar(s.tb, w)
       THEN [s1 EXCEPT
               !.tb = IF cfg.MAXIMISED_ENABLED
                      THEN [s.tb EXCEPT ![m].second = MAXIMISED]
                      ELSE s.tb,
               !.ssp = IF cfg.PEEK = "Dynamic" THEN TRUE ELSE s.ssp]
       ELSE s1

\* s = [tb, ssp, hwnd]: run.taskbars, run.should_show_peek and hwnd
EnumWindowsProcess(s, w) ==
    LET s1 == [s EXCEPT !.hwnd = w]
        m == Attr(w).mon
    IN IF IsMaximisedOnTaskbar(s.tb, w)
       THEN [s1 EXCEPT
               !.tb = IF cfg.MAXIMISED_ENABLED
                      THEN [s.tb EXCEPT ![m].second = MAXIMISED]
                      ELSE s.tb,
               !.ssp = IF cfg.PEEK = "Dynamic"
                       THEN IF cfg.PEEK_ONLY_MAIN
                            THEN IF s.tb[m].first = main_taskbar THEN TRUE ELSE s.ssp
                            ELSE TRUE
                       ELSE s.ssp]
       ELSE s1

\* EnumWindows: the callback on every existing top-level window from handle i on
RECURSIVE EnumWindows(_, _)
EnumWindows(s, i) ==
    IF i > NumWindows THEN s
    ELSE EnumWindows(IF windows[i].valid THEN EnumWindowsProcess(s, i) ELSE s, i + 1)

IsSearchProcess(w) ==
    \/ IgnoreCaseStringEquals(Attr(w).file, "SearchUI.exe")
    \/ IgnoreCaseStringEquals(Attr(w).file, "SearchApp.exe")

\* lines 322-327
ResetTaskbars(tb) == [k \in DOMAIN tb |-> [tb[k] EXCEPT !.second = REGULAR]]

\* ShellWindowRules with the two start-menu presets exchanged
ShellWindowRulesStartSwapped(tb, window) ==
    IF fg # NullWindow /\ Attr(fg).mon \in DOMAIN tb /\ IsMaximisedOnTaskbar(tb, window)
    THEN IF cfg.START_ENABLED /\ start_opened
         THEN [tb EXCEPT ![Attr(fg).mon].second = START]
         ELSE [tb EXCEPT ![Attr(fg).mon].second = MAXIMISED]
    ELSE tb

\* lines 333-366; window is Window(hwnd) as read at line 314
ShellWindowRules(tb, window) ==
    IF fg # NullWindow /\ Attr(fg).mon \in DOMAIN tb
    THEN IF IsMaximisedOnTaskbar(tb, window)
         THEN LET m == Attr(fg).mon
                  tb1 == IF cfg.CORTANA_ENABLED /\ ~start_opened /\ ~Attr(fg).cloaked
                         THEN IF IsSearchProcess(fg)
                              THEN [tb EXCEPT ![m].second = MAXIMISED]
                              ELSE tb
                         ELSE IF IsSearchProcess(fg)
                              THEN [tb EXCEPT ![m].second = CORTANA]
                              ELSE tb
              IN IF cfg.START_ENABLED /\ start_opened
                 THEN [tb1 EXCEPT ![m].second = MAXIMISED]
                 ELSE [tb1 EXCEPT ![m].second = START]
         ELSE tb
    ELSE tb

\* lines 370-376
RegularOnPeek(tb) ==
    IF cfg.MAXIMISED_ENABLED /\ cfg.MAXIMISED_REGULAR_ON_PEEK /\ peek_active
    THEN [k \in DOMAIN tb |-> [tb[k] EXCEPT !.second = REGULAR]]
    ELSE tb

\* the condition of lines 381-383 on the foreground window
IsTimeline(w) ==
    IF cfg.timeline_av
    THEN Attr(w).class = CORE_WINDOW /\ IgnoreCaseStringEquals(Attr(w).file, "Explorer.exe")
    ELSE Attr(w).class = "MultitaskingViewFrame"

\* TimelineRule writing only the entry of the foreground window's monitor
TimelineRuleForegroundOnly(tb) ==
    IF fg # NullWindow /\ cfg.TIMELINE_ENABLED /\ IsTimeline(fg)
    THEN [k \in DOMAIN tb |->
            IF k = Attr(fg).mon THEN [tb[k] EXCEPT !.second = TIMELINE] ELSE tb[k]]
    ELSE tb

\* lines 378-390
TimelineRule(tb) ==
    IF fg # NullWindow /\ cfg.TIMELINE_ENABLED /\ IsTimeline(fg)
    THEN [k \in DOMAIN tb |-> [tb[k] EXCEPT !.second = TIMELINE]]
    ELSE tb

\* Recompute with the peek block placed before the Start/Cortana block
RecomputePeekFirst(tb, h) ==
    LET reset == [tb |-> ResetTaskbars(tb), ssp |-> (cfg.PEEK = "Enabled"), hwnd |-> h]
        scan == IF cfg.MAXIMISED_ENABLED \/ cfg.PEEK = "Dynamic"
                THEN EnumWindows(reset, 1)
                ELSE reset
    IN [scan EXCEPT !.tb = TimelineRule(ShellWindowRules(RegularOnPeek(scan.tb), h))]

\* lines 322-390 on the map tb with hwnd = h on entry: the map,
\* run.should_show_peek and hwnd on leaving the block
Recompute(tb, h) ==
    LET reset == [tb |-> ResetTaskbars(tb), ssp |-> (cfg.PEEK = "Enabled"), hwnd |-> h]
        scan == IF cfg.MAXIMISED_ENABLED \/ cfg.PEEK = "Dynamic"
                THEN EnumWindows(reset, 1)
                ELSE reset
    IN [scan EXCEPT !.tb = TimelineRule(RegularOnPeek(ShellWindowRules(scan.tb, h)))]

\* WorkerCheck that never reads run.is_running
WorkerCheckForever ==
    /\ wpc = "loop"
    /\ wpc' = "tick"
    /\ UNCHANGED <<cfg, swca, envVars, runVars, blurVars, mutex, mpc, rhpc, is_running,
                   exit_reason, peek_active, start_opened>>

\* swca_thread: while (run.is_running)
WorkerCheck ==
    /\ wpc = "loop"
    /\ wpc' = IF is_running THEN "tick" ELSE "exited"
    /\ UNCHANGED <<cfg, swca, envVars, runVars, blurVars, mutex, mpc, rhpc, is_running,
                   exit_reason, peek_active, start_opened>>

\* SetTaskbarBlur up to line 393, counter >= 10
TickRecompute ==
    /\ wpc = "tick"
    /\ Lock("worker")
    /\ counter >= CounterThreshold
    /\ LET r == Recompute(taskbars, hwnd)
       IN /\ taskbars' = r.tb
          /\ should_show_peek' = r.ssp
          /\ hwnd' = r.hwnd
    /\ counter' = 0
    /\ wpc' = "apply"
    /\ UNCHANGED <<cfg, swca, envVars, main_taskbar, blurVars, mpc, rhpc, is_running,
                   exit_reason, peek_active, start_opened>>

\* TickIdle that counts two for one tick
TickIdleByTwo ==
    /\ wpc = "tick"
    /\ Lock("worker")
    /\ counter < CounterThreshold
    /\ counter' = counter + 2
    /\ wpc' = "apply"
    /\ UNCHANGED <<cfg, swca, envVars, taskbars, main_taskbar, should_show_peek, hwnd,
                   blurVars, mpc, rhpc, is_running, exit_reason, peek_active, start_opened>>

\* TickIdle that scans and decides as well
TickIdleRecomputes ==
    /\ wpc = "tick"
    /\ Lock("worker")
    /\ counter < CounterThreshold
    /\ LET r == Recompute(taskbars, hwnd)
       IN /\ taskbars' = r.tb
          /\ should_show_peek' = r.ssp
          /\ hwnd' = r.hwnd
    /\ counter' = counter + 1
    /\ wpc' = "apply"
    /\ UNCHANGED <<cfg, swca, envVars, main_taskbar, blurVars, mpc, rhpc, is_running,
                   exit_reason, peek_active, start_opened>>

\* SetTaskbarBlur up to line 397, counter < 10
TickIdle ==
    /\ wpc = "tick"
    /\ Lock("worker")
    /\ counter < CounterThreshold
    /\ counter' = counter + 1
    /\ wpc' = "apply"
    /\ UNCHANGED <<cfg, swca, envVars, taskbars, main_taskbar, should_show_peek, hwnd,
                   blurVars, mpc, rhpc, is_running, exit_reason, peek_active, start_opened>>

\* lines 399-404, then the sleep of line 564
TickApply ==
    /\ wpc = "apply"
    /\ LET b == BlurAll([is_normal |-> is_normal, sent |-> sent], DOMAIN taskbars,
                        [k \in DOMAIN taskbars |-> cfg.ACCENT[taskbars[k].second]],
                        [k \in DOMAIN taskbars |-> cfg.COLOR[taskbars[k].second]])
       IN /\ is_normal' = b.is_normal
          /\ sent' = b.sent
    /\ mutex' = "free"
    /\ wpc' = "loop"
    /\ UNCHANGED <<cfg, swca, envVars, runVars, mpc, rhpc, is_running, exit_reason,
                   peek_active, start_opened>>

----------------------------------------------------------------------------
(* wWinMain *)

\* std::thread swca_thread(...)
StartWorker ==
    /\ mpc = "spawn"
    /\ mpc' = "loop"
    /\ wpc' = "loop"
    /\ UNCHANGED <<cfg, swca, envVars, runVars, blurVars, mutex, rhpc, is_running,
                   exit_reason, peek_active, start_opened>>

\* peek_hook: run.peek_active = event == 0x21, delivered by the message loop
PeekHook ==
    /\ mpc = "loop"
    /\ rhpc = "idle"
    /\ peek_active' = ~peek_active
    /\ UNCHANGED <<cfg, swca, envVars, runVars, blurVars, threadVars, rhpc, start_opened>>

\* AppVisibilitySink writes run.start_opened between Advise and Unadvise
StartVisibility ==
    /\ mpc \in {"loop", "stopping", "joining"}
    /\ start_opened' = ~start_opened
    /\ UNCHANGED <<cfg, swca, envVars, runVars, blurVars, threadVars, rhpc, peek_active>>

ExitReasons == {"NewInstance", "UserAction", "UserActionNoSave"}

\* ExitApp, and GetMessage returning 0 on the quit message it posts
ExitApp ==
    /\ mpc = "loop"
    /\ rhpc = "idle"
    /\ \E reason \in ExitReasons : exit_reason' = reason
    /\ mpc' = "stopping"
    /\ UNCHANGED <<cfg, swca, envVars, runVars, blurVars, mutex, rhpc, wpc, is_running,
                   peek_active, start_opened>>

\* run.is_running = false
StopWorker ==
    /\ mpc = "stopping"
    /\ is_running' = FALSE
    /\ mpc' = "joining"
    /\ UNCHANGED <<cfg, swca, envVars, runVars, blurVars, mutex, rhpc, wpc, exit_reason,
                   peek_active, start_opened>>

\* JoinWorker that does not wait for the thread
JoinWorkerNoWait ==
    /\ mpc = "joining"
    /\ mpc' = "restoring"
    /\ UNCHANGED <<cfg, swca, envVars, runVars, blurVars, mutex, rhpc, wpc, is_running,
                   exit_reason, peek_active, start_opened>>

\* swca_thread.join()
JoinWorker ==
    /\ mpc = "joining"
    /\ wpc = "exited"
    /\ mpc' = "restoring"
    /\ UNCHANGED <<cfg, swca, envVars, runVars, blurVars, mutex, rhpc, wpc, is_running,
                   exit_reason, peek_active, start_opened>>

\* lines 591-606
Restore ==
    /\ mpc = "restoring"
    /\ LET b == IF exit_reason # "NewInstance"
                THEN BlurAll([is_normal |-> is_normal, sent |-> sent], DOMAIN taskbars,
                             [k \in DOMAIN taskbars |-> ACCENT_NORMAL],
                             [k \in DOMAIN taskbars |-> 0])
                ELSE [is_normal |-> is_normal, sent |-> sent]
       IN /\ is_normal' = b.is_normal
          /\ sent' = b.sent
    /\ mpc' = "done"
    /\ UNCHANGED <<cfg, swca, envVars, runVars, mutex, rhpc, wpc, is_running, exit_reason,
                   peek_active, start_opened>>

----------------------------------------------------------------------------
(* The shell: taskbars and windows come, go and change *)

\* a display is attached or detached, or explorer (re)creates or loses a taskbar
TopologyChange ==
    /\ \/ /\ primary' = ~primary
          /\ UNCHANGED secondaries
       \/ /\ \E m \in SecondaryMonitors :
                secondaries' = IF m \in secondaries THEN secondaries \ {m}
                               ELSE secondaries \cup {m}
          /\ UNCHANGED primary
    /\ UNCHANGED <<cfg, swca, windows, fg, runVars, blurVars, threadVars, peek_active,
                   start_opened>>

\* window w is created, destroyed, moved, maximized, restored, cloaked, ...
WindowChange(ids, shapes) ==
    /\ \E w \in ids, a \in shapes \cup {Gone} :
          /\ windows[w] # a
          /\ windows' = [windows EXCEPT ![w] = a]
          /\ fg' = IF fg = w /\ ~a.valid THEN NullWindow ELSE fg
    /\ UNCHANGED <<cfg, swca, primary, secondaries, runVars, blurVars, threadVars,
                   peek_active, start_opened>>

\* another window, or none, becomes the foreground window
ForegroundChange ==
    /\ \E w \in {NullWindow} \cup {x \in WindowIds : windows[x].valid} :
          /\ w # fg
          /\ fg' = w
    /\ UNCHANGED <<cfg, swca, primary, secondaries, windows, runVars, blurVars,
                   threadVars, peek_active, start_opened>>

\* another program, or the shell itself, changes the composition state of a
\* taskbar surface of the registry
ExternalChange ==
    /\ \E k \in DOMAIN taskbars :
          /\ sent[taskbars[k].first] # External
          /\ sent' = [sent EXCEPT ![taskbars[k].first] = External]
    /\ UNCHANGED <<cfg, swca, envVars, runVars, is_normal, threadVars, peek_active,
                   start_opened>>

----------------------------------------------------------------------------
(* The program from the start of wWinMain *)

InitRun ==
    /\ taskbars = EmptyMap
    /\ main_taskbar = NullWindow
    /\ should_show_peek = TRUE
    /\ is_running = TRUE
    /\ exit_reason = "UserAction"
    /\ peek_active = FALSE
    /\ start_opened = FALSE
    /\ hwnd = NullWindow
    /\ counter = CounterThreshold
    /\ is_normal = EmptyMap
    /\ sent = [s \in Surfaces |-> NoCommand]
    /\ mutex = "free"
    /\ mpc = "startup"
    /\ rhpc = "idle"
    /\ wpc = "notstarted"

Init ==
    /\ cfg = BaseConfig
    /\ swca = TRUE
    /\ primary = TRUE
    /\ secondaries = {}
    /\ windows = [w \in WindowIds |-> Gone]
    /\ fg = NullWindow
    /\ InitRun

\* no peek and no start-menu event arrives
Next ==
    \/ RefreshLock
    \/ RefreshClear
    \/ RefreshFill
    \/ StartWorker
    \/ WorkerCheck
    \/ TickRecompute
    \/ TickIdle
    \/ TickApply
    \/ ExitApp
    \/ StopWorker
    \/ JoinWorker
    \/ Restore
    \/ TopologyChange
    \/ WindowChange({NumWindows}, {Good(PrimaryMonitor, Ordinary)})
    \/ ForegroundChange

Spec == Init /\ [][Next]_vars

----------------------------------------------------------------------------
(* One Recompute tick on every input: the states in which the worker is about *)
(* to enter SetTaskbarBlur with counter = 10.  Such a state is reached by a   *)
(* Recompute tick that left hwnd, nine Idle ticks, a rebuild, one more Idle   *)
(* tick that dispatches Regular, and then any change of the windows, of the   *)
(* foreground window and of the two flags.                                    *)

MaxChanged == 1

Changed(c) ==
    Cardinality({ f \in {"MAXIMISED_ENABLED", "MAXIMISED_REGULAR_ON_PEEK", "PEEK",
                         "PEEK_ONLY_MAIN", "CORTANA_ENABLED", "START_ENABLED",
                         "TIMELINE_ENABLED", "timeline_av"} : c[f] # BaseConfig[f] })

\* BaseConfig with at most MaxChanged settings changed
DecideConfigs == { c \in AllConfigs : Changed(c) <= MaxChanged }

\* window 1 is any window, the others are ordinary application windows
DecideWindows ==
    { f \in [WindowIds -> AllShapes \cup {Gone}] :
        \A w \in WindowIds \ {1} : f[w] \in PlainShapes \cup {Gone} }

InitDecide ==
    /\ cfg \in DecideConfigs
    /\ swca = TRUE
    /\ primary = TRUE
    /\ secondaries \in SUBSET SecondaryMonitors
    /\ windows \in DecideWindows
    /\ fg \in {NullWindow} \cup {w \in {1} : windows[w].valid}
    /\ peek_active \in BOOLEAN
    /\ start_opened \in BOOLEAN
    /\ main_taskbar = FindMainTaskbar
    /\ taskbars = Populate(EmptyMap, PrimaryMonitor)
    /\ hwnd \in IF cfg.MAXIMISED_ENABLED \/ cfg.PEEK = "Dynamic"
                THEN {NullWindow} \cup WindowIds
                ELSE {NullWindow}
    /\ should_show_peek = IF hwnd = NullWindow THEN cfg.PEEK = "Enabled"
                          ELSE cfg.PEEK # "Disabled"
    /\ counter = CounterThreshold
    /\ LET b == BlurAll([is_normal |-> EmptyMap, sent |-> [s \in Surfaces |-> NoCommand]],
                        DOMAIN taskbars,
                        [k \in DOMAIN taskbars |-> cfg.ACCENT[REGULAR]],
                        [k \in DOMAIN taskbars |-> cfg.COLOR[REGULAR]])
       IN /\ is_normal = b.is_normal
          /\ sent = b.sent
    /\ is_running = TRUE
    /\ exit_reason = "UserAction"
    /\ mutex = "free"
    /\ mpc = "loop"
    /\ rhpc = "idle"
    /\ wpc = "tick"

NextDecide ==
    \/ TickRecompute
    \/ TickApply

SpecDecide == InitDecide /\ [][NextDecide]_vars

----------------------------------------------------------------------------
(* The two threads alone, from the start of wWinMain to its return, with the   *)
(* scheduling the claims on termination assume: a thread that can take a step *)
(* eventually takes it.  The message loop may go on for ever, so ExitApp and  *)
(* the calls of RefreshHandles it makes are not forced.                       *)

NextThreads ==
    \/ RefreshLock
    \/ RefreshClear
    \/ RefreshFill
    \/ StartWorker
    \/ WorkerCheck
    \/ TickRecompute
    \/ TickIdle
    \/ TickApply
    \/ ExitApp
    \/ StopWorker
    \/ JoinWorker
    \/ Restore
    \/ TopologyChange

\* the worker thread is scheduled
WorkerFair ==
    /\ WF_vars(WorkerCheck)
    /\ WF_vars(TickRecompute)
    /\ WF_vars(TickIdle)
    /\ WF_vars(TickApply)

\* the GUI thread is scheduled inside RefreshHandles (the lock is released) and
\* after the message loop
MainFair ==
    /\ WF_vars(RefreshClear)
    /\ WF_vars(RefreshFill)
    /\ WF_vars(StartWorker)
    /\ WF_vars(StopWorker)
    /\ WF_vars(JoinWorker)
    /\ WF_vars(Restore)

SpecThreads == Init /\ [][NextThreads]_vars /\ WorkerFair /\ MainFair

----------------------------------------------------------------------------
(* The two threads from the start of wWinMain with every event callback: the   *)
(* rebuild, the peek hook and the start-menu sink.                            *)

NextEvents ==
    \/ RefreshLock
    \/ RefreshClear
    \/ RefreshFill
    \/ StartWorker
    \/ WorkerCheck
    \/ TickRecompute
    \/ TickIdle
    \/ TickApply
    \/ PeekHook
    \/ StartVisibility
    \/ ExitApp
    \/ StopWorker
    \/ JoinWorker
    \/ Restore
    \/ TopologyChange

SpecEvents == Init /\ [][NextEvents]_vars

----------------------------------------------------------------------------
(* The worker's ticks and the dispatcher on every mode and on a sample of     *)
(* colors, with and without the native primitive: the program from the moment *)
(* the worker thread is created (line 550) with one taskbar, while peek and   *)
(* start-menu events arrive, a window comes and goes and other programs touch *)
(* the taskbar, until wWinMain returns.                                       *)

Modes == {ACCENT_NORMAL, ACCENT_ENABLE_BLURBEHIND, ACCENT_ENABLE_FLUENT}

\* ARGB colors: alpha 0x00, 0x01 and 0x7F (the values stay below 2^31) over the
\* RGB value 0x123456
Colors == { a * (256 ^ 3) + 1193046 : a \in {0, 1, 127} }

\* BaseConfig with every mode and color for the Regular preset
TickConfigs ==
    { [BaseConfig EXCEPT !.ACCENT[REGULAR] = a, !.COLOR[REGULAR] = c] :
        a \in Modes, c \in Colors }

InitTick ==
    /\ cfg \in TickConfigs
    /\ swca \in BOOLEAN
    /\ primary = TRUE
    /\ secondaries = {}
    /\ windows = [w \in WindowIds |-> Gone]
    /\ fg = NullWindow
    /\ main_taskbar = FindMainTaskbar
    /\ taskbars = Populate(EmptyMap, PrimaryMonitor)
    /\ should_show_peek = TRUE
    /\ is_running = TRUE
    /\ exit_reason = "UserAction"
    /\ peek_active = FALSE
    /\ start_opened = FALSE
    /\ hwnd = NullWindow
    /\ counter = CounterThreshold
    /\ is_normal = EmptyMap
    /\ sent = [s \in Surfaces |-> NoCommand]
    /\ mutex = "free"
    /\ mpc = "loop"
    /\ rhpc = "idle"
    /\ wpc = "loop"

NextTick ==
    \/ WorkerCheck
    \/ TickRecompute
    \/ TickIdle
    \/ TickApply
    \/ PeekHook
    \/ StartVisibility
    \/ ExternalChange
    \/ WindowChange({1}, {Good(PrimaryMonitor, Ordinary)})
    \/ ForegroundChange
    \/ ExitApp
    \/ StopWorker
    \/ JoinWorker
    \/ Restore

SpecTick == InitTick /\ [][NextTick]_vars

----------------------------------------------------------------------------
(* The decision of one Recompute tick (C1-C7), under SpecDecide *)

\* the step that runs lines 318-393 with counter >= 10
RecomputeTick == wpc = "tick" /\ counter >= CounterThreshold /\ wpc' = "apply"

\* the state such a step leaves
Recomputed == wpc = "apply" /\ counter = 0

\* rule 6 applies: Timeline is enabled and the foreground window is the task view
TimelineHolds == cfg.TIMELINE_ENABLED /\ fg # NullWindow /\ IsTimeline(fg)

\* rule 5 applies
PeekHolds == cfg.MAXIMISED_ENABLED /\ cfg.MAXIMISED_REGULAR_ON_PEEK /\ peek_active

\* the scan finds a qualifying maximized window on monitor m
SeenOn(m) == \E w \in WindowIds : IsMaximisedOnTaskbar(taskbars, w) /\ windows[w].mon = m

\* the preset of monitor m after rules 1-2
Rules12(m) == IF cfg.MAXIMISED_ENABLED /\ SeenOn(m) THEN MAXIMISED ELSE REGULAR

\* rule 4 as the specification words it: the foreground window is on a registry
\* monitor and is itself visible, maximized, not cloaked, not blacklisted and on
\* the current desktop
Rule4Applies == fg # NullWindow /\ IsMaximisedOnTaskbar(taskbars, fg)

\* rule 4 as the tick about to run executes it: the block of lines 340-364 is
\* entered
Rule4Fires ==
    fg # NullWindow /\ Attr(fg).mon \in DOMAIN taskbars /\ IsMaximisedOnTaskbar(taskbars, hwnd)

AllAssigned(tb, p) == \A m \in DOMAIN tb : tb[m].second = p

\* C1: a second Recompute tick on the inputs of the first (same registry, windows,
\* foreground window, flags and configuration) assigns every monitor the preset
\* the first one assigned, whatever hwnd an earlier tick left behind.
C1_Determinism ==
    (wpc = "tick" /\ counter >= CounterThreshold) =>
        LET first == Recompute(taskbars, hwnd)
            again == Recompute(first.tb, first.hwnd)
        IN \A m \in DOMAIN taskbars : again.tb[m].second = first.tb[m].second

\* C2: a Recompute tick on which Timeline is enabled and the foreground window
\* matches the task-view signature leaves every registry monitor assigned Timeline.
C2_TimelineWins ==
    [][(RecomputeTick /\ TimelineHolds) => AllAssigned(taskbars', TIMELINE)]_vars

\* C2 happens: both monitors are Timeline although peek suppression applies and a
\* qualifying maximized window sits on a monitor other than the foreground one
C2_Witness ==
    /\ Recomputed
    /\ TimelineHolds
    /\ PeekHolds
    /\ DOMAIN taskbars = Monitors
    /\ \E m \in Monitors : SeenOn(m) /\ m # Attr(fg).mon
    /\ AllAssigned(taskbars, TIMELINE)

\* C3: a Recompute tick with maximized-enabled, regular-on-peek and peek_active
\* true and Timeline not holding leaves every registry monitor assigned Regular.
C3_PeekSuppression ==
    [][(RecomputeTick /\ PeekHolds /\ ~TimelineHolds) => AllAssigned(taskbars', REGULAR)]_vars

\* C3 happens: the foreground window is itself a qualifying maximized window and
\* a second monitor has one too, and all are Regular
C3_Witness ==
    /\ Recomputed
    /\ PeekHolds
    /\ ~TimelineHolds
    /\ Rule4Applies
    /\ DOMAIN taskbars = Monitors
    /\ \A m \in Monitors : SeenOn(m)
    /\ AllAssigned(taskbars, REGULAR)

\* C4: a Recompute tick on which rule 4 applies to the foreground window's monitor,
\* the foreground process is SearchUI.exe or SearchApp.exe, search integration is
\* enabled, start_opened is false, the foreground window is not cloaked and neither
\* rule 5 nor rule 6 applies leaves the foreground monitor assigned Cortana.
C4_CortanaRule ==
    [][(/\ RecomputeTick
        /\ Rule4Applies
        /\ Rule4Fires
        /\ IsSearchProcess(fg)
        /\ cfg.CORTANA_ENABLED
        /\ ~start_opened
        /\ ~Attr(fg).cloaked
        /\ ~PeekHolds
        /\ ~TimelineHolds)
       => taskbars'[Attr(fg).mon].second = CORTANA]_vars

\* the presets rule 4 can write
ShellOutcomes ==
    {CORTANA, START} \cup (IF cfg.START_ENABLED /\ start_opened THEN {MAXIMISED} ELSE {})

\* C5: on a Recompute tick (rules 5 and 6 aside) the foreground monitor's preset is
\* one written by rule 4 if the foreground window is on a registry monitor and is
\* itself visible, maximized, not cloaked, not blacklisted and on the current
\* desktop, and is the result of rules 1-2 if the foreground window fails any of
\* these tests; no other window decides it.
C5_ForegroundGuard ==
    [][(/\ RecomputeTick
        /\ fg # NullWindow
        /\ Attr(fg).mon \in DOMAIN taskbars
        /\ ~PeekHolds
        /\ ~TimelineHolds)
       => IF Rule4Applies
          THEN taskbars'[Attr(fg).mon].second \in ShellOutcomes
          ELSE taskbars'[Attr(fg).mon].second = Rules12(Attr(fg).mon)]_vars

C7_TwoMonitors ==
    [][(/\ RecomputeTick
        /\ DOMAIN taskbars = {PrimaryMonitor, PrimaryMonitor + 1}
        /\ ~peek_active
        /\ ~TimelineHolds
        /\ ~Rule4Applies)
       => /\ (\A m \in DOMAIN taskbars : ~SeenOn(m)) => AllAssigned(taskbars', REGULAR)
          /\ (cfg.MAXIMISED_ENABLED /\ SeenOn(PrimaryMonitor + 1) /\ ~SeenOn(PrimaryMonitor))
                => /\ taskbars'[PrimaryMonitor + 1].second = MAXIMISED
                   /\ taskbars'[PrimaryMonitor].second = REGULAR]_vars

----------------------------------------------------------------------------
(* should_show_peek (C19), under SpecDecide *)

\* a qualifying maximized window sits on a registry monitor: on the main
\* taskbar's one if only the main monitor counts, on any otherwise
PeekWindowSeen ==
    \E w \in WindowIds :
       /\ windows[w].valid
       /\ IsMaximisedOnTaskbar(taskbars, w)
       /\ cfg.PEEK_ONLY_MAIN => taskbars[windows[w].mon].first = main_taskbar

\* C19: a Recompute tick leaves should_show_peek true exactly when the peek mode
\* is Enabled, or is Dynamic and the scan found a qualifying maximized window on
\* a registry monitor (the main taskbar's monitor if peek-only-main is set); in
\* mode Disabled it is false; the value it had before the tick plays no part.
C19_ShouldShowPeek ==
    [][RecomputeTick
       => should_show_peek' = (\/ cfg.PEEK = "Enabled"
                               \/ cfg.PEEK = "Dynamic" /\ PeekWindowSeen)]_vars

\* C19 happens: in mode Dynamic with peek-only-main a qualifying maximized
\* window on the second monitor alone left the flag false
C19_Witness ==
    /\ Recomputed
    /\ cfg.PEEK = "Dynamic"
    /\ cfg.PEEK_ONLY_MAIN
    /\ DOMAIN taskbars = Monitors
    /\ \E m \in SecondaryMonitors : SeenOn(m)
    /\ ~SeenOn(PrimaryMonitor)
    /\ ~should_show_peek

----------------------------------------------------------------------------
(* Rebuild, locking and shutdown (C8-C10), under Spec *)

\* the step on which RefreshHandles returns
RefreshReturns == rhpc = "cleared" /\ rhpc' = "idle"

\* the taskbar surfaces that exist, each with its monitor
LiveSurfaces ==
    (IF primary THEN {<<PrimaryMonitor, Tray(PrimaryMonitor)>>} ELSE {})
        \cup {<<m, Tray(m)>> : m \in secondaries}

Entries(tb) == {<<m, tb[m].first>> : m \in DOMAIN tb}

\* C8: when RefreshHandles returns, the registry's (monitor, surface) entries are
\* exactly the taskbar surfaces that exist at that time, each with preset Regular.
C8_RebuildExact ==
    [][RefreshReturns => (Entries(taskbars') = LiveSurfaces /\ AllAssigned(taskbars', REGULAR))]_vars

\* the worker is inside SetTaskbarBlur, between its decide and its apply step
InTick == wpc = "apply"

\* the GUI thread is inside RefreshHandles, past its lock_guard
InRebuild == rhpc \in {"locked", "cleared"}

\* a step of the worker's tick
TickStep == (wpc = "tick" /\ wpc' = "apply") \/ (wpc = "apply" /\ wpc' = "loop")

\* C9: a rebuild and a worker tick never overlap: the worker is never inside a
\* tick while the GUI thread is inside RefreshHandles, no step of a tick is taken
\* on a registry that is cleared and not yet repopulated, and the registry keeps
\* its entries between the decide and the apply step of a tick.
C9_MutualExclusion ==
    /\ [](~(InTick /\ InRebuild))
    /\ [][TickStep => ~InRebuild]_vars
    /\ [][(InTick /\ wpc' = "loop") => Entries(taskbars') = Entries(taskbars)]_vars
    /\ [][(InTick /\ wpc' = "apply") => taskbars' = taskbars]_vars

\* C9 happens: the worker waits at the lock while the registry is cleared
C9_Witness ==
    /\ wpc = "tick"
    /\ rhpc = "cleared"
    /\ mutex = "main"
    /\ taskbars = EmptyMap
    /\ mpc = "loop"

\* the restore loop of lines 600-603 has run or is about to
Restoring == mpc \in {"restoring", "done"}

\* C10: the restore is issued only after the worker thread has exited; from then
\* on no tick runs and the registry does not change, and when wWinMain is done
\* (any exit but NewInstance) the last command sent to every registry surface is
\* the Normal one.
C10_ShutdownOrder ==
    /\ [](Restoring => wpc = "exited")
    /\ [][Restoring => UNCHANGED <<taskbars, main_taskbar, should_show_peek, hwnd, counter, wpc>>]_vars
    /\ [][mpc = "done" => UNCHANGED <<is_normal, sent>>]_vars
    /\ []((mpc = "done" /\ exit_reason # "NewInstance" /\ swca) =>
            \A m \in DOMAIN taskbars : sent[taskbars[m].first] = ThemeChanged)

\* C10 happens: two surfaces that last received a blur command are restored
C10_Witness ==
    /\ mpc = "done"
    /\ wpc = "exited"
    /\ exit_reason = "UserAction"
    /\ DOMAIN taskbars = Monitors
    /\ \A m \in Monitors : taskbars[m].second # START /\ sent[Tray(m)] = ThemeChanged

----------------------------------------------------------------------------
(* Cancellation of the worker (C11), under SpecThreads *)

\* the worker enters a tick: the loop condition of line 561 was read true
TickBegins == wpc = "loop" /\ wpc' = "tick"

\* C11: once run.is_running is false the worker begins no further tick (the only
\* tick it still completes is the one it was in), it then leaves its loop, and
\* the join of the shutdown path returns.
C11_WorkerCancellation ==
    /\ [][~is_running => ~TickBegins]_vars
    /\ (~is_running) ~> (wpc = "exited")
    /\ (mpc = "joining") ~> Restoring

\* C11 happens: the flag was cleared while the worker was inside a tick, holding
\* the lock
C11_Witness ==
    /\ ~is_running
    /\ mpc = "joining"
    /\ wpc = "apply"
    /\ mutex = "worker"

----------------------------------------------------------------------------
(* The ticks and the dispatcher (C12-C15, C18), under SpecTick *)

\* the step that runs the dispatch loop of lines 399-403
ApplyStep == wpc = "apply" /\ wpc' = "loop"

\* the tick in progress is an Idle tick: it left the assignment as it was
IdleTick == counter > 0

\* the last thing that set the composition state of surface s is a command of
\* SetWindowBlur for mode accent
PutBackBy(s, accent) == sent'[s] # External /\ sent'[s].msg # "none" /\ sent'[s].accent = accent

\* C12: when the native primitive exists and another program changed the
\* composition state of a registry surface, the dispatch of the next tick that
\* keeps the assignment (an Idle tick) issues the command of the assigned preset
\* to that surface, whatever the preset's mode, Normal included.
C12_SelfHealing ==
    [][(swca /\ ApplyStep /\ IdleTick)
       => \A k \in DOMAIN taskbars :
             sent[taskbars[k].first] = External
                => PutBackBy(taskbars[k].first, cfg.ACCENT[taskbars[k].second])]_vars

\* the step that runs SetTaskbarBlur up to its dispatch loop
DecideStep == wpc = "tick" /\ wpc' = "apply"

\* C13: a tick that finds the counter at the threshold (10) runs the scan and the
\* decision and sets the counter to 0; every other tick adds one to the counter
\* and leaves every monitor's preset and should_show_peek as they were, whatever
\* happened to the windows, the foreground window, peek_active and start_opened.
C13_Debounce ==
    [][DecideStep
       => IF counter >= CounterThreshold
          THEN /\ counter' = 0
               /\ taskbars' = Recompute(taskbars, hwnd).tb
               /\ should_show_peek' = Recompute(taskbars, hwnd).ssp
          ELSE /\ counter' = counter + 1
               /\ taskbars' = taskbars
               /\ should_show_peek' = should_show_peek]_vars

\* C13 happens: an Idle tick has left Regular on a monitor where a window was
\* maximized after the last Recompute tick
C13_Witness ==
    /\ wpc = "apply"
    /\ IdleTick
    /\ fg = NullWindow
    /\ ~peek_active
    /\ cfg.MAXIMISED_ENABLED
    /\ \E w \in WindowIds : IsMaximisedOnTaskbar(taskbars, w)
                            /\ taskbars[Attr(w).mon].second = REGULAR

\* the dispatcher's state
BlurState == [is_normal |-> is_normal, sent |-> sent]

\* what the call SetWindowBlur(w, a, c) made in state b issues to w: a native
\* call, a theme-refresh notification, or NoCommand
Issued(b, w, a, c) == SetWindowBlur([b EXCEPT !.sent[w] = NoCommand], w, a, c).sent[w]

\* C14: with the native primitive present, in every state the dispatcher can be
\* in and for every pair of consecutive calls on a registry surface: after a
\* call the memo entry of the surface is (mode = Normal); the second call sends
\* the theme-refresh notification only if it is a Normal-mode call and the
\* first was not; a first call ever on a surface sends it only if its mode is
\* Normal; a Normal-mode call makes no native call; and the second of two
\* Normal-mode calls issues nothing and changes nothing.
C14_Memoization ==
    swca =>
      \A k \in DOMAIN taskbars, a1 \in Modes, a2 \in Modes :
         LET w == taskbars[k].first
             c == cfg.COLOR[taskbars[k].second]
             b1 == SetWindowBlur(BlurState, w, a1, c)
             b2 == SetWindowBlur(b1, w, a2, c)
         IN /\ b1.is_normal[w] = (a1 = ACCENT_NORMAL)
            /\ b2.is_normal[w] = (a2 = ACCENT_NORMAL)
            /\ Issued(b1, w, a2, c) = ThemeChanged
                  => (a2 = ACCENT_NORMAL /\ a1 # ACCENT_NORMAL)
            /\ (w \notin DOMAIN is_normal /\ Issued(BlurState, w, a1, c) = ThemeChanged)
                  => a1 = ACCENT_NORMAL
            /\ a1 = ACCENT_NORMAL
                  => Issued(BlurState, w, a1, c) \in {NoCommand, ThemeChanged}
            /\ (a1 = ACCENT_NORMAL /\ a2 = ACCENT_NORMAL)
                  => (Issued(b1, w, a2, c) = NoCommand /\ b2 = b1)

\* C14 happens: two ticks in a row dispatched a Normal-mode preset to the
\* taskbar; one notification was sent and the memo says Normal
C14_Witness ==
    /\ swca
    /\ wpc = "loop"
    /\ IdleTick
    /\ \E k \in DOMAIN taskbars :
          /\ cfg.ACCENT[taskbars[k].second] = ACCENT_NORMAL
          /\ taskbars[k].first \in DOMAIN is_normal
          /\ is_normal[taskbars[k].first]
          /\ sent[taskbars[k].first] = ThemeChanged

\* the low 24 bits of a color
Low24(c) == c % (256 ^ 3)

\* C15: the color a dispatch passes to the native primitive has alpha byte 0x01
\* when the mode is Fluent and the preset's alpha byte is 0x00, and the preset's
\* alpha byte otherwise (non-zero alpha, or a mode other than Fluent); its other
\* 24 bits are those of the converted preset color in every case.
C15_AlphaClamp ==
    [][(swca /\ ApplyStep)
       => \A k \in DOMAIN taskbars :
             LET a == cfg.ACCENT[taskbars[k].second]
                 c == cfg.COLOR[taskbars[k].second]
                 n == sent'[taskbars[k].first]
             IN a # ACCENT_NORMAL
                  => /\ n.msg = "SetWindowCompositionAttribute"
                     /\ Byte(n.color, 3) = IF a = ACCENT_ENABLE_FLUENT /\ Byte(c, 3) = 0
                                           THEN 1 ELSE Byte(c, 3)
                     /\ Low24(n.color) = Low24(PolicyColor(c))
                     /\ Byte(n.color, 2) = Byte(c, 0)
                     /\ Byte(n.color, 1) = Byte(c, 1)
                     /\ Byte(n.color, 0) = Byte(c, 2)]_vars

\* C15 happens: a Fluent preset with alpha 0x00 and a non-zero RGB value was
\* dispatched and the native primitive received alpha 0x01
C15_Witness ==
    /\ swca
    /\ wpc = "loop"
    /\ \E k \in DOMAIN taskbars :
          /\ cfg.ACCENT[taskbars[k].second] = ACCENT_ENABLE_FLUENT
          /\ Byte(cfg.COLOR[taskbars[k].second], 3) = 0
          /\ Low24(cfg.COLOR[taskbars[k].second]) # 0
          /\ sent[taskbars[k].first].msg = "SetWindowCompositionAttribute"
          /\ Byte(sent[taskbars[k].first].color, 3) = 1

----------------------------------------------------------------------------
(* The missing primitive (C18), under SpecTick *)

\* the step that runs the restore loop of lines 600-603
RestoreStep == mpc = "restoring" /\ mpc' = "done"

\* C18: without the native primitive every SetWindowBlur call, on any surface,
\* mode and color, changes nothing: the dispatch loop of every tick and the
\* restore loop at shutdown issue no native call and no notification, and the
\* memo stays empty.
C18_MissingCapability ==
    /\ [](~swca => \A w \in Surfaces, a \in Modes, c \in Colors \cup {0} :
                      SetWindowBlur(BlurState, w, a, c) = BlurState)
    /\ [](~swca => is_normal = EmptyMap)
    /\ [][(~swca /\ (ApplyStep \/ RestoreStep)) => UNCHANGED <<is_normal, sent>>]_vars

\* C18 happens: without the primitive, ticks have run on a Fluent preset and the
\* restore loop has run, and the taskbar never received a command
C18_Witness ==
    /\ ~swca
    /\ mpc = "done"
    /\ exit_reason = "UserAction"
    /\ IdleTick
    /\ cfg.ACCENT[REGULAR] = ACCENT_ENABLE_FLUENT
    /\ taskbars # EmptyMap
    /\ \A k \in DOMAIN taskbars : sent[taskbars[k].first] = NoCommand

----------------------------------------------------------------------------
(* The registry and its rebuild (C16, C17, C20), under Spec *)

\* the handles that are taskbar surfaces
TaskbarSurfaces == {Tray(m) : m \in Monitors}

\* C16: from the return of the first RefreshHandles on, in every state (between
\* a rebuild and the next Recompute tick and inside a tick as well), every key of
\* the registry maps to a taskbar surface and to one of the presets of the
\* catalog.
C16_RegistryInvariant ==
    mpc # "startup"
       => \A k \in DOMAIN taskbars :
             /\ taskbars[k].first \in TaskbarSurfaces
             /\ taskbars[k].second \in Presets

\* the last rebuild found no primary taskbar
RebuildFailed == mpc # "startup" /\ rhpc = "idle" /\ main_taskbar = NullWindow

\* C17: a RefreshHandles that finds no Shell_TrayWnd window returns with an empty
\* registry, and while the last rebuild is such a one the dispatch loop of a tick
\* issues nothing and leaves the memo as it is.
C17_RebuildFailure ==
    /\ [][(RefreshReturns /\ ~primary) => taskbars' = EmptyMap]_vars
    /\ [][(ApplyStep /\ RebuildFailed) => UNCHANGED <<is_normal, sent>>]_vars

\* the next tick of the worker is a Recompute tick
NextTickRecomputes == counter >= CounterThreshold

\* C20: when RefreshHandles returns every entry's preset is Regular and the
\* first tick after it is a Recompute tick, so that no Idle tick dispatches the
\* Regular the rebuild wrote.
C20_RecomputeAfterRebuild ==
    [][RefreshReturns => (AllAssigned(taskbars', REGULAR) /\ NextTickRecomputes')]_vars

----------------------------------------------------------------------------
(* The cadence of the Recompute ticks (C21), under SpecEvents *)

\* C21: the counter is always in 0..10; it stands at 10 until the worker's first
\* tick, which is therefore a Recompute tick; a tick that finds it at 10 sets it
\* to 0 and every other tick adds exactly one, so that ten Idle ticks lie between
\* two Recompute ticks; and no other step (a rebuild, the peek hook, the
\* start-menu sink or any other event) changes it.
C21_Cadence ==
    /\ [](counter \in 0..CounterThreshold)
    /\ [](wpc = "notstarted" => NextTickRecomputes)
    /\ [][DecideStep => counter' = IF NextTickRecomputes THEN 0 ELSE counter + 1]_vars
    /\ [][DecideStep => (NextTickRecomputes <=> taskbars' = Recompute(taskbars, hwnd).tb
                                                 /\ hwnd' = Recompute(taskbars, hwnd).hwnd
                                                 /\ counter' = 0)]_vars
    /\ [][~DecideStep => counter' = counter]_vars

\* C21 happens: the counter is back at 10 after ten Idle ticks, and in between a
\* rebuild on a changed topology, a peek event and a start-menu event ran
C21_Witness ==
    /\ wpc = "loop"
    /\ mpc = "loop"
    /\ counter = CounterThreshold
    /\ sent[Tray(PrimaryMonitor)] # NoCommand
    /\ DOMAIN taskbars = Monitors
    /\ peek_active
    /\ start_opened

====
